---- MODULE Spec2Model ----
(***************************************************************************)
(* The AI gateway of the language-learning backend: the three routes of    *)
(* aiRouter (validate-token, generate-text, translate-word) and the        *)
(* AIService provider adapter they delegate to.  One request is followed   *)
(* from its arrival, through the await of the outbound vendor call, to the *)
(* response.  Strings are TLA+ strings and the JavaScript string methods   *)
(* the code uses (toLowerCase, toUpperCase, includes, trim) are computed   *)
(* character by character.                                                 *)
(*                                                                         *)
(* A second part follows the frontend's WordDefinitionModal, the component *)
(* that asks translate-word for a suggestion and hands the chosen          *)
(* translation to onSave.  Its specification is ModalSpec.                 *)
(***************************************************************************)
EXTENDS Integers, Sequences, FiniteSets, TLC

VARIABLES
  pc,          \* position of the handler: "idle", "await", "done"
  op,          \* the route handling the request: "none" or a route name
  req,         \* req.body of the request being handled
  route,       \* which vendor call the handler awaits: "none", "axios-gemini", "openai", "claude", "gemini"
  calls,       \* outbound vendor requests issued while handling the request
  aiResponse,  \* what AIService.generateText returned, None before it returns
  classified,  \* TRUE when the catch classifier of AIService.generateText ran
  escaped,     \* TRUE when AIService.generateText let an exception out
  vendorOutcome, \* how the awaited vendor call settled, None before it does
  resp,        \* responses sent for the request (res.status(..).json(..))
  log,         \* console lines written while handling the request
  served,      \* requests answered so far
  modal,       \* WordDefinitionModal: its props isOpen and word, its state hooks, the app's AI readiness
  inflight,    \* aiService.translateWord calls of the modal that have not settled
  fetches,     \* how many times the modal has called fetchAITranslation
  onSaveCalls  \* the calls onSave(word, translation) the modal has made

gatewayVars == <<pc, op, req, route, calls, aiResponse, classified, escaped, vendorOutcome, resp, log, served>>
modalVars == <<modal, inflight, fetches, onSaveCalls>>
vars == <<gatewayVars, modalVars>>

\* How many requests one run follows.
MaxRequests == 2

\* How many translations the modal requests and how many saves it makes in one run.
MaxFetches == 3
MaxSaves == 2

----------------------------------------------------------------------------
\* JavaScript values: an optional value (undefined or a value) is <<>> or <<v>>.

None == <<>>
Some(v) == <<v>>
IsSome(o) == o # <<>>
Get(o) == o[1]

\* !!o for an optional string: undefined and "" are falsy.
Truthy(o) == IsSome(o) /\ Get(o) # ""

\* o || d
OrElse(o, d) == IF Truthy(o) THEN Get(o) ELSE d

\* `${o}` of an optional string.
Str(o) == IF IsSome(o) THEN Get(o) ELSE "undefined"

UpperChars == "ABCDEFGHIJKLMNOPQRSTUVWXYZ"
LowerChars == "abcdefghijklmnopqrstuvwxyz"
WhiteSpace == {" ", "\n", "\t"}

CharAt(s, i) == SubSeq(s, i, i)

MapChar(c, from, to) ==
  IF \E i \in 1..Len(from) : CharAt(from, i) = c
  THEN CharAt(to, CHOOSE i \in 1..Len(from) : CharAt(from, i) = c)
  ELSE c

RECURSIVE MapStr(_, _, _)
MapStr(s, from, to) ==
  IF s = "" THEN ""
  ELSE IF Len(s) = 1 THEN MapChar(s, from, to)
  ELSE LET h == Len(s) \div 2
       IN  MapStr(SubSeq(s, 1, h), from, to) \o MapStr(SubSeq(s, h + 1, Len(s)), from, to)

\* String.prototype.toLowerCase / toUpperCase on ASCII text.
toLowerCase(s) == MapStr(s, UpperChars, LowerChars)
toUpperCase(s) == MapStr(s, LowerChars, UpperChars)

\* String.prototype.includes: sub occurs in s as a contiguous substring.
includes(s, sub) ==
  \E i \in 1..(Len(s) - Len(sub) + 1) : SubSeq(s, i, i + Len(sub) - 1) = sub

\* String.prototype.startsWith
startsWith(s, pre) == Len(pre) <= Len(s) /\ SubSeq(s, 1, Len(pre)) = pre

RECURSIVE trimStart(_)
trimStart(s) ==
  IF s # "" /\ CharAt(s, 1) \in WhiteSpace THEN trimStart(SubSeq(s, 2, Len(s))) ELSE s

RECURSIVE trimEnd(_)
trimEnd(s) ==
  IF s # "" /\ CharAt(s, Len(s)) \in WhiteSpace THEN trimEnd(SubSeq(s, 1, Len(s) - 1)) ELSE s

\* String.prototype.trim
trim(s) == trimEnd(trimStart(s))

----------------------------------------------------------------------------
\* Prompt Builder.

Levels == {"Elementary", "Pre-Intermediate", "Intermediate", "Upper-Intermediate", "Advanced"}

\* The range without a case of its own for Upper-Intermediate.
WordRangeNoUpperIntermediate(level) ==
  IF level = "Elementary" THEN "150-200"
  ELSE IF level = "Pre-Intermediate" THEN "200-250"
  ELSE IF level = "Intermediate" THEN "250-300"
  ELSE "400-500"

\* The word-count range interpolated into the template.
WordRange(level) ==
  IF level = "Elementary" THEN "150-200"
  ELSE IF level = "Pre-Intermediate" THEN "200-250"
  ELSE IF level = "Intermediate" THEN "250-300"
  ELSE IF level = "Upper-Intermediate" THEN "300-400"
  ELSE "400-500"

\* The level-based prompt template.
LevelPrompt(level) ==
  "Generate a high-quality, engaging reading comprehension text for " \o level
    \o " level English learners.\n\nRequirements:\n- Text should be approximately "
    \o WordRange(level)
    \o " words.\n- Use appropriate vocabulary and grammar complexity for the specified level.\n"
    \o "- Ensure the text is engaging, educational, coherent, and flows naturally.\n\nLevel: "
    \o level \o "\nPlease generate a completely new and unique text now:"

\* prompt of generate-text: the custom prompt when it is truthy, else the template.
BuildPrompt(level, customPrompt) ==
  IF Truthy(customPrompt) THEN Get(customPrompt) ELSE LevelPrompt(level)

\* maxTokens of generate-text.
GenerateMaxTokens(level, customPrompt) ==
  IF Truthy(customPrompt) THEN 200 ELSE IF level = "Advanced" THEN 700 ELSE 500

\* The prompt of translate-word.
TranslationPrompt(word, targetLanguage) ==
  "Translate the English word \"" \o word \o "\" to " \o targetLanguage
    \o ". \nProvide only the direct translation without any additional text, explanation, or formatting.\n"
    \o "Just the single word translation in " \o targetLanguage
    \o ".\nWord to translate: " \o word \o "\nTarget language: " \o targetLanguage

\* prompts[level] of AIService.getSystemPrompt.  prompts is an object literal:
\* besides its five own keys it answers the names it inherits from
\* Object.prototype, and prompts["constructor"] is the function Object, a
\* truthy value that is no string.  That value is written here as the text
\* JavaScript renders it to; "" stands for undefined (no such property).
SystemPromptOf(level) ==
  CASE level = "constructor" -> "function Object() { [native code] }"
    [] level = "Elementary" ->
         "You are an English teacher creating simple, engaging content for elementary level students. Use basic vocabulary and simple sentence structures."
    [] level = "Pre-Intermediate" ->
         "You are an English teacher creating content for pre-intermediate students. Use moderately complex vocabulary and varied sentence structures."
    [] level = "Intermediate" ->
         "You are an English teacher creating content for intermediate level students. Use a good variety of vocabulary and complex sentence structures."
    [] level = "Upper-Intermediate" ->
         "You are an English teacher creating advanced content for upper-intermediate students. Use sophisticated vocabulary and complex grammatical structures."
    [] level = "Advanced" ->
         "You are an English teacher creating challenging content for advanced students. Use complex vocabulary, idiomatic expressions, and sophisticated grammatical structures."
    [] OTHER -> ""

\* AIService.getSystemPrompt: prompts[level] || prompts['Intermediate'].
getSystemPrompt(level) ==
  IF SystemPromptOf(level) # "" THEN SystemPromptOf(level) ELSE SystemPromptOf("Intermediate")

----------------------------------------------------------------------------
\* Thrown values.  A thrown value is an Error (it has a message, and the vendor
\* SDKs and axios add the HTTP status and, for axios, the vendor's own
\* response.data.error.message) or some other value (no message, no status).

Err(isError, status, message, apiMessage) ==
  [isError |-> isError, status |-> status, message |-> message, apiMessage |-> apiMessage]

\* The TypeError of reading [0] of undefined.
TypeErrorIndex0 ==
  Err(TRUE, None, Some("Cannot read properties of undefined (reading '0')"), None)

Return(v) == [kind |-> "return", value |-> v]
Throw(e) == [kind |-> "throw", err |-> e]

\* AIServiceResponse
Failure(error) == [success |-> FALSE, text |-> None, error |-> Some(error)]
Success(text) == [success |-> TRUE, text |-> Some(text), error |-> None]

\* The classifier matching the message as raised, without lower-casing it.
ClassifyErrorCaseSensitive(provider, e) ==
  IF ~e.isError THEN "Unknown AI service error"
  ELSE LET errorMessage == Get(e.message)
           P == toUpperCase(provider)
       IN  IF \/ includes(errorMessage, "api key not valid")
              \/ includes(errorMessage, "invalid api key")
              \/ includes(errorMessage, "api_key_invalid")
              \/ includes(errorMessage, "unauthorized")
           THEN "Invalid " \o P \o " API key. Please check your API key and try again."
           ELSE IF \/ includes(errorMessage, "rate limit")
                   \/ includes(errorMessage, "quota")
                   \/ includes(errorMessage, "too many requests")
           THEN P \o " rate limit exceeded. Please try again in a few minutes."
           ELSE IF \/ includes(errorMessage, "network")
                   \/ includes(errorMessage, "connection")
                   \/ includes(errorMessage, "timeout")
           THEN "Network error connecting to " \o P \o ". Please check your internet connection."
           ELSE IF includes(errorMessage, "400") \/ includes(errorMessage, "bad request")
           THEN "Invalid request to " \o P \o ". Please check your API key configuration."
           ELSE IF includes(errorMessage, "500") \/ includes(errorMessage, "internal server error")
           THEN P \o " service is temporarily unavailable. Please try again later."
           ELSE Get(e.message)

\* The classifier testing the rate-limit category before the credential category.
ClassifyErrorRateLimitFirst(provider, e) ==
  IF ~e.isError THEN "Unknown AI service error"
  ELSE LET errorMessage == toLowerCase(Get(e.message))
           P == toUpperCase(provider)
       IN  IF \/ includes(errorMessage, "rate limit")
              \/ includes(errorMessage, "quota")
              \/ includes(errorMessage, "too many requests")
           THEN P \o " rate limit exceeded. Please try again in a few minutes."
           ELSE IF \/ includes(errorMessage, "api key not valid")
                   \/ includes(errorMessage, "invalid api key")
                   \/ includes(errorMessage, "api_key_invalid")
                   \/ includes(errorMessage, "unauthorized")
           THEN "Invalid " \o P \o " API key. Please check your API key and try again."
           ELSE IF \/ includes(errorMessage, "network")
                   \/ includes(errorMessage, "connection")
                   \/ includes(errorMessage, "timeout")
           THEN "Network error connecting to " \o P \o ". Please check your internet connection."
           ELSE IF includes(errorMessage, "400") \/ includes(errorMessage, "bad request")
           THEN "Invalid request to " \o P \o ". Please check your API key configuration."
           ELSE IF includes(errorMessage, "500") \/ includes(errorMessage, "internal server error")
           THEN P \o " service is temporarily unavailable. Please try again later."
           ELSE Get(e.message)

\* The catch classifier of AIService.generateText: the user message for a
\* thrown value, by substring tests on the lower-cased message, first match wins.
ClassifyError(provider, e) ==
  IF ~e.isError THEN "Unknown AI service error"
  ELSE LET errorMessage == toLowerCase(Get(e.message))
           P == toUpperCase(provider)
       IN  IF \/ includes(errorMessage, "api key not valid")
              \/ includes(errorMessage, "invalid api key")
              \/ includes(errorMessage, "api_key_invalid")
              \/ includes(errorMessage, "unauthorized")
           THEN "Invalid " \o P \o " API key. Please check your API key and try again."
           ELSE IF \/ includes(errorMessage, "rate limit")
                   \/ includes(errorMessage, "quota")
                   \/ includes(errorMessage, "too many requests")
           THEN P \o " rate limit exceeded. Please try again in a few minutes."
           ELSE IF \/ includes(errorMessage, "network")
                   \/ includes(errorMessage, "connection")
                   \/ includes(errorMessage, "timeout")
           THEN "Network error connecting to " \o P \o ". Please check your internet connection."
           ELSE IF includes(errorMessage, "400") \/ includes(errorMessage, "bad request")
           THEN "Invalid request to " \o P \o ". Please check your API key configuration."
           ELSE IF includes(errorMessage, "500") \/ includes(errorMessage, "internal server error")
           THEN P \o " service is temporarily unavailable. Please try again later."
           ELSE Get(e.message)

\* A vendor call settles: it resolves with a reply or rejects with a thrown value.
Resolved(reply) == [settled |-> "resolved", reply |-> reply]
Rejected(e) == [settled |-> "rejected", err |-> e]

\* response.choices[0]?.message?.content of a chat completion.  choices is
\* None (no such field) or Some(list); a choice's message and a message's
\* content are optional.
OpenAIContent(reply) ==
  IF ~IsSome(reply.choices) THEN Throw(TypeErrorIndex0)
  ELSE LET choices == Get(reply.choices)
       IN  IF Len(choices) = 0 THEN Return(None)
           ELSE IF ~IsSome(choices[1].message) THEN Return(None)
           ELSE Return(Get(choices[1].message).content)

\* generateWithOpenAI's status test looking for 403 instead of 401.
OpenAIIsAuthFailure403(e) == e.status = Some(403)

\* The status test of generateWithOpenAI's catch.
OpenAIIsAuthFailure(e) == e.status = Some(401)

\* AIService.generateWithOpenAI, from the settled chat.completions.create call.
generateWithOpenAI(outcome) ==
  LET body == IF outcome.settled = "rejected" THEN Throw(outcome.err)
              ELSE LET c == OpenAIContent(outcome.reply)
                   IN  IF c.kind = "throw" THEN c
                       ELSE IF ~Truthy(c.value)
                            THEN Return(Failure("No text generated from OpenAI"))
                            ELSE Return(Success(Get(c.value)))
  IN  IF body.kind = "return" THEN body
      ELSE IF OpenAIIsAuthFailure(body.err)
           THEN Return(Failure("Invalid OpenAI API key. Please check your API key at https://platform.openai.com/api-keys"))
           ELSE body

\* response.content.find(block => block.type === 'text'): the first text block.
ClaudeTextBlock(content) ==
  IF \E i \in 1..Len(content) : content[i].type = "text"
  THEN Some(content[CHOOSE i \in 1..Len(content) :
                      /\ content[i].type = "text"
                      /\ \A j \in 1..(i - 1) : content[j].type # "text"])
  ELSE None

\* The status test of generateWithClaude's catch.
ClaudeIsAuthFailure(e) == e.status = Some(401)

\* AIService.generateWithClaude, from the settled messages.create call.
generateWithClaude(outcome) ==
  LET body == IF outcome.settled = "rejected" THEN Throw(outcome.err)
              ELSE LET textContent == ClaudeTextBlock(outcome.reply.content)
                   IN  IF ~IsSome(textContent) \/ Get(textContent).type # "text"
                       THEN Return(Failure("No text generated from Claude"))
                       ELSE Return(Success(Get(textContent).text))
  IN  IF body.kind = "return" THEN body
      ELSE IF ClaudeIsAuthFailure(body.err)
           THEN Return(Failure("Invalid Claude API key. Please check your API key at https://console.anthropic.com/"))
           ELSE body

\* The test of generateWithGemini's catch: status 400 and the (case-sensitive)
\* text of the message.
GeminiIsAuthFailure(e) ==
  e.status = Some(400) /\ IsSome(e.message) /\ includes(Get(e.message), "API key not valid")

\* AIService.generateWithGemini, from the settled generateContent call; the
\* reply is what response.text() gives: a string, or a thrown value.
generateWithGemini(outcome) ==
  LET body == IF outcome.settled = "rejected" THEN Throw(outcome.err)
              ELSE IF outcome.reply.text = ""
                   THEN Return(Failure("No text generated from Gemini"))
                   ELSE Return(Success(outcome.reply.text))
  IN  IF body.kind = "return" THEN body
      ELSE IF GeminiIsAuthFailure(body.err)
           THEN Return(Failure("Invalid Gemini API key. Please get a valid API key from https://makersuite.google.com/app/apikey"))
           ELSE body

\* generateWithCohere throwing instead of returning its failure.
generateWithCohereThrowing ==
  Throw(Err(TRUE, None, Some("Cohere SDK is not installed"), None))

\* AIService.generateWithCohere: no vendor call, a fixed failure.
generateWithCohere == Return(Failure("Cohere integration not yet implemented"))

\* The default branch of the provider switch.
UnsupportedProvider(provider) == Return(Failure("Unsupported AI provider: " \o provider))

\* Providers whose adapter makes a vendor call.
CallingProviders == {"openai", "claude", "gemini"}

\* The provider switch of AIService.generateText, for a provider whose adapter
\* awaited a vendor call that has now settled.
Dispatch(provider, outcome) ==
  CASE provider = "openai" -> generateWithOpenAI(outcome)
    [] provider = "claude" -> generateWithClaude(outcome)
    [] provider = "gemini" -> generateWithGemini(outcome)

\* The provider switch for a provider whose adapter makes no vendor call.
DispatchNoCall(provider) ==
  IF provider = "cohere" THEN generateWithCohere ELSE UnsupportedProvider(provider)

\* The try/catch of AIService.generateText around the switch: what it
\* returns or throws, and whether the catch classifier ran.
CatchAndClassify(provider, inner) ==
  IF inner.kind = "return"
  THEN [completion |-> inner, classified |-> FALSE]
  ELSE [completion |-> Return(Failure(ClassifyError(provider, inner.err))),
        classified |-> TRUE]

\* AIService.generateText
generateText(provider, outcome) == CatchAndClassify(provider, Dispatch(provider, outcome))
generateTextNoCall(provider) == CatchAndClassify(provider, DispatchNoCall(provider))

----------------------------------------------------------------------------
\* Inputs: request bodies and vendor outcomes.

NoFields ==
  [apiToken |-> None, level |-> None, provider |-> None, model |-> None,
   customPrompt |-> None, word |-> None, targetLanguage |-> None,
   languageCode |-> None, aiToken |-> None]

\* A field of a body: not sent, sent empty, or sent with one of the values.
Field(values) == {None, Some("")} \cup {Some(v) : v \in values}

TokenValues == {"sk-x", "not-a-key"}
LevelValues == Levels \cup {"Expert", "constructor"}
ProviderValues == {"openai", "claude", "gemini", "cohere", "mistral"}
ModelValues == {"m-1"}
CustomPromptValues == {"Say hello to the student."}
WordValues == {"hello"}
LanguageValues == {"Spanish"}
LanguageCodeValues == {"es"}

ValidateBodies == {[NoFields EXCEPT !.apiToken = t] : t \in Field(TokenValues)}

GenerateBodies ==
  {[NoFields EXCEPT !.level = l, !.apiToken = t, !.provider = p, !.model = m,
                    !.customPrompt = c] :
     l \in Field(LevelValues), t \in Field(TokenValues), p \in Field(ProviderValues),
     m \in Field(ModelValues), c \in Field(CustomPromptValues)}

TranslateBodies ==
  {[NoFields EXCEPT !.word = w, !.targetLanguage = tl, !.languageCode = lc,
                    !.aiToken = t, !.provider = p, !.model = m] :
     w \in Field(WordValues), tl \in Field(LanguageValues),
     lc \in Field(LanguageCodeValues), t \in Field(TokenValues),
     p \in Field(ProviderValues), m \in Field(ModelValues)}

\* Texts a vendor may produce.
Texts == {"", " ", "Hola", " Hola\n", "The cat sat."}

\* Messages of the errors a vendor call may raise.
ErrorMessages ==
  {"401 Unauthorized",
   "Incorrect API key provided: sk-x",
   "API key not valid. Please pass a valid API key.",
   "Rate limit reached for requests",
   "Unauthorized: RATE LIMIT policy",
   "You exceeded your current quota",
   "Connection timeout",
   "400 Bad Request",
   "500 Internal Server Error",
   "Model is overloaded",
   "Connection timeout: too many requests",
   "400 Bad Request: network unreachable",
   "500 Internal Server Error (request 4001)",
   ""}

Statuses == {None, Some(400), Some(401), Some(429)}

ApiMessages == {None, Some("Resource has been exhausted (e.g. check quota).")}

\* What an SDK call may throw.
SdkThrown ==
  {Err(TRUE, s, Some(m), None) : s \in Statuses, m \in ErrorMessages}
    \cup {Err(FALSE, None, None, None)}

\* What axios.post may throw: an Error, with the vendor's error body when it answered.
AxiosThrown ==
  {Err(TRUE, s, Some(m), a) : s \in Statuses, m \in ErrorMessages, a \in ApiMessages}

OpenAIReplies ==
  {[choices |-> None],
   [choices |-> Some(<<>>)],
   [choices |-> Some(<<[message |-> None]>>)],
   [choices |-> Some(<<[message |-> Some([content |-> None])]>>)]}
    \cup {[choices |-> Some(<<[message |-> Some([content |-> Some(t)])]>>)] : t \in Texts}

ClaudeReplies ==
  {[content |-> <<>>],
   [content |-> <<[type |-> "tool_use"]>>]}
    \cup {[content |-> <<[type |-> "text", text |-> t]>>] : t \in Texts}
    \cup {[content |-> <<[type |-> "tool_use"], [type |-> "text", text |-> t]>>] : t \in Texts}

\* response.text() of the Gemini SDK.
GeminiSdkReplies == {[text |-> t] : t \in Texts}

\* response.data of the generateContent REST call.
GeminiRestReplies ==
  {[candidates |-> None],
   [candidates |-> Some(<<>>)],
   [candidates |-> Some(<<[content |-> None]>>)],
   [candidates |-> Some(<<[content |-> Some([parts |-> None])]>>)],
   [candidates |-> Some(<<[content |-> Some([parts |-> Some(<<>>)])]>>)],
   [candidates |-> Some(<<[content |-> Some([parts |-> Some(<<[text |-> None]>>)])]>>)]}
    \cup {[candidates |-> Some(<<[content |-> Some([parts |-> Some(<<[text |-> Some(t)]>>)])]>>)] :
            t \in Texts}

\* The outcomes of the vendor call the handler awaits.
Outcomes(r) ==
  CASE r = "openai" ->
         {Resolved(x) : x \in OpenAIReplies} \cup {Rejected(e) : e \in SdkThrown}
    [] r = "claude" ->
         {Resolved(x) : x \in ClaudeReplies} \cup {Rejected(e) : e \in SdkThrown}
    [] r = "gemini" ->
         {Resolved(x) : x \in GeminiSdkReplies} \cup {Rejected(e) : e \in SdkThrown}
    [] r = "axios-gemini" ->
         {Resolved(x) : x \in GeminiRestReplies} \cup {Rejected(e) : e \in AxiosThrown}
    [] OTHER -> {}

----------------------------------------------------------------------------
\* HTTP Gateway: responses, vendor requests and console lines.

NoBody ==
  [success |-> FALSE, text |-> None, message |-> None, error |-> None, translation |-> None]
ErrorBody(e) == [NoBody EXCEPT !.error = Some(e)]
TextBody(t) == [NoBody EXCEPT !.success = TRUE, !.text = Some(t)]
MessageBody(m) == [NoBody EXCEPT !.success = TRUE, !.message = Some(m)]
TranslationBody(t) == [NoBody EXCEPT !.success = TRUE, !.translation = Some(t)]

\* res.status(status).json(body); res.json(body) is status 200.
Json(status, body) == [status |-> status, body |-> body]

WelcomeMessage ==
  "Hello! I am your personal English teacher. I am ready to help you learn. Please select your proficiency level to begin."

\* Console lines are kept without their leading emoji.

\* How console.log renders a thrown value.
ErrStr(e) == IF e.isError THEN "Error: " \o Get(e.message) ELSE "thrown value"

\* How console.log renders one field of req.body.
BodyField(name, o) == IF IsSome(o) THEN " " \o name \o ": '" \o Get(o) \o "'," ELSE ""

\* How console.log renders req.body of translate-word.
BodyStr(b) ==
  "{" \o BodyField("word", b.word) \o BodyField("targetLanguage", b.targetLanguage)
      \o BodyField("languageCode", b.languageCode) \o BodyField("aiToken", b.aiToken)
      \o BodyField("provider", b.provider) \o BodyField("model", b.model) \o " }"

GeminiUrl(model, apiToken) ==
  "https://generativelanguage.googleapis.com/v1/models/" \o model
    \o ":generateContent?key=" \o Str(apiToken)

\* The request of the generate-text route's own axios.post to Gemini.
GeminiRestCall(model, apiToken, prompt) ==
  [vendor |-> "gemini", via |-> "axios", url |-> Some(GeminiUrl(model, apiToken)),
   apiKey |-> apiToken, model |-> model, system |-> None, prompt |-> prompt,
   maxTokens |-> None]

\* The vendor request an AIService adapter sends for config {provider, apiKey, model};
\* apiKey and model are optional values.
ServiceCall(provider, apiKey, model, level, prompt, maxTokens) ==
  CASE provider = "openai" ->
         [vendor |-> "openai", via |-> "sdk", url |-> None, apiKey |-> apiKey,
          model |-> OrElse(model, "gpt-3.5-turbo"),
          system |-> Some(getSystemPrompt(level)), prompt |-> prompt,
          maxTokens |-> Some(maxTokens)]
    [] provider = "claude" ->
         [vendor |-> "claude", via |-> "sdk", url |-> None, apiKey |-> apiKey,
          model |-> OrElse(model, "claude-3-haiku-20240307"),
          system |-> Some(getSystemPrompt(level)), prompt |-> prompt,
          maxTokens |-> Some(maxTokens)]
    [] provider = "gemini" ->
         [vendor |-> "gemini", via |-> "sdk", url |-> None, apiKey |-> apiKey,
          model |-> OrElse(model, "gemini-1.5-flash"), system |-> None,
          prompt |-> getSystemPrompt(level) \o "\n\n" \o prompt,
          maxTokens |-> None]

\* Console lines an adapter writes before its vendor call.
ServiceCallLog(provider, model) ==
  IF provider = "gemini"
  THEN <<"Gemini using model: " \o OrElse(model, "gemini-1.5-flash")>>
  ELSE <<>>

\* Console line of the catch of AIService.generateText.
ServiceCatchLog(provider, inner) ==
  IF inner.kind = "throw"
  THEN <<"AI generation error (" \o provider \o "): " \o ErrStr(inner.err)>>
  ELSE <<>>

\* validate-token's validation also rejecting tokens of an unexpected form.
ValidateTokenInvalidUnlessSk(b) == ~Truthy(b.apiToken) \/ ~startsWith(Get(b.apiToken), "sk-")

\* The validation of validate-token.
ValidateTokenInvalid(b) == ~Truthy(b.apiToken)

\* generate-text's validation with the test of model left out.
GenerateTextInvalidNoModel(b) ==
  ~Truthy(b.level) \/ ~Truthy(b.apiToken) \/ ~Truthy(b.provider)

\* The validation of generate-text.
GenerateTextInvalid(b) ==
  ~Truthy(b.level) \/ ~Truthy(b.apiToken) \/ ~Truthy(b.provider) \/ ~Truthy(b.model)

\* The validation of translate-word.
TranslateWordInvalid(b) ==
  ~Truthy(b.word) \/ ~Truthy(b.targetLanguage) \/ ~Truthy(b.languageCode)

\* translate-word's credentials test with the test of aiToken left out.
TranslateWordNoCredentialsProviderOnly(b) == ~Truthy(b.provider)

\* The credentials test of translate-word.
TranslateWordNoCredentials(b) == ~Truthy(b.aiToken) \/ ~Truthy(b.provider)

\* response.data.candidates[0]?.content?.parts[0]?.text
GeminiRestText(data) ==
  IF ~IsSome(data.candidates) THEN Throw(TypeErrorIndex0)
  ELSE LET candidates == Get(data.candidates)
       IN  IF Len(candidates) = 0 THEN Return(None)
           ELSE IF ~IsSome(candidates[1].content) THEN Return(None)
           ELSE LET parts == Get(candidates[1].content).parts
                IN  IF ~IsSome(parts) THEN Throw(TypeErrorIndex0)
                    ELSE IF Len(Get(parts)) = 0 THEN Return(None)
                    ELSE Return(Get(parts)[1].text)

\* The status the gemini branch of generate-text answers a failed call with.
GeminiBranchFailureStatus == 500

\* The gemini branch of generate-text after axios.post settled: the response
\* and the console lines.
GenerateTextGeminiReply(o) ==
  LET tried == IF o.settled = "rejected" THEN Throw(o.err)
               ELSE LET t == GeminiRestText(o.reply)
                    IN  IF t.kind = "throw" THEN t
                        ELSE IF Truthy(t.value) THEN Return(Get(t.value))
                        ELSE Throw(Err(TRUE, None, Some("No text found in Gemini API response."), None))
  IN  IF tried.kind = "return"
      THEN [resp |-> Json(200, TextBody(tried.value)),
            log |-> <<"Successfully generated AI text with Gemini">>]
      ELSE LET errorMessage == IF Truthy(tried.err.apiMessage)
                               THEN tried.err.apiMessage ELSE tried.err.message
           IN  [resp |-> Json(GeminiBranchFailureStatus,
                              ErrorBody("AI text generation failed: " \o Str(errorMessage)
                                \o ". Please check your AI configuration and try again.")),
                log |-> <<"Gemini API Error: " \o Str(errorMessage)>>]

\* The AIService branch of generate-text after aiService.generateText settled.
GenerateTextServiceReply(provider, completion) ==
  IF completion.kind = "throw"
  THEN [resp |-> Json(500, ErrorBody("AI service error: "
                        \o OrElse(completion.err.message, "Unknown error") \o ".")),
        log |-> <<"AI service error for " \o provider \o ": " \o ErrStr(completion.err)>>]
  ELSE LET r == completion.value
       IN  IF r.success /\ Truthy(r.text)
           THEN [resp |-> Json(200, TextBody(Get(r.text))),
                 log |-> <<"Successfully generated AI text with " \o provider>>]
           ELSE [resp |-> Json(400, ErrorBody("AI text generation failed: "
                                 \o OrElse(r.error, "Unknown error") \o ".")),
                 log |-> <<"AI generation failed for " \o provider \o ": " \o Str(r.error)>>]

\* The text of a translation that the route answers with.
TranslationOf(text) == trim(text)

\* translate-word after aiService.generateText settled.
TranslateWordServiceReply(word, completion) ==
  IF completion.kind = "throw"
  THEN [resp |-> Json(200, ErrorBody("Translation error: "
                        \o (IF completion.err.isError THEN Get(completion.err.message)
                            ELSE "Unknown error"))),
        log |-> <<"AI translation error: " \o ErrStr(completion.err)>>]
  ELSE LET r == completion.value
       IN  IF r.success /\ Truthy(r.text)
           THEN [resp |-> Json(200, TranslationBody(TranslationOf(Get(r.text)))),
                 log |-> <<"AI translation successful: \"" \o word \o "\" -> \""
                             \o TranslationOf(Get(r.text)) \o "\"">>]
           ELSE [resp |-> Json(200, ErrorBody("Unable to translate \"" \o word \o "\". "
                                 \o Str(r.error))),
                 log |-> <<"AI translation failed: " \o Str(r.error)>>]

----------------------------------------------------------------------------
\* The handlers, one action per run of handler code between two awaits.

\* The modal as it is mounted: closed, nothing typed, nothing requested.
\* ready is state.isAiReady && state.aiToken && state.aiProvider of the app.
Mounted(ready) ==
  /\ modal = [isOpen |-> FALSE, word |-> "", translation |-> "", aiTranslation |-> "",
              isLoadingTranslation |-> FALSE, isSubmitting |-> FALSE, isAiReady |-> ready]
  /\ inflight = {}
  /\ fetches = 0
  /\ onSaveCalls = <<>>

\* The server before its first request.
Listening ==
  /\ pc = "idle"
  /\ op = "none"
  /\ req = NoFields
  /\ route = "none"
  /\ calls = <<>>
  /\ aiResponse = None
  /\ classified = FALSE
  /\ escaped = FALSE
  /\ vendorOutcome = None
  /\ resp = <<>>
  /\ log = <<>>
  /\ served = 0

Init == Listening /\ Mounted(TRUE)

\* The handler answers without calling AIService.
Answer(r, lines) ==
  /\ resp' = Append(resp, r)
  /\ log' = log \o lines
  /\ pc' = "done"
  /\ UNCHANGED <<route, calls, aiResponse, classified, escaped, vendorOutcome, served>>

\* A handler that issues its vendor call a second time.
AwaitWithRetry(r, call, lines) ==
  /\ route' = r
  /\ calls' = Append(Append(calls, call), call)
  /\ log' = log \o lines
  /\ pc' = "await"
  /\ UNCHANGED <<aiResponse, classified, escaped, vendorOutcome, resp, served>>

\* The handler issues a vendor call and suspends on it.
Await(r, call, lines) ==
  /\ route' = r
  /\ calls' = Append(calls, call)
  /\ log' = log \o lines
  /\ pc' = "await"
  /\ UNCHANGED <<aiResponse, classified, escaped, vendorOutcome, resp, served>>

\* aiService.generateText has settled as run says; the handler answers with reply.
AnswerFromService(run, reply, lines) ==
  /\ aiResponse' = IF run.completion.kind = "return" THEN Some(run.completion.value) ELSE None
  /\ escaped' = (run.completion.kind = "throw")
  /\ classified' = run.classified
  /\ resp' = Append(resp, reply.resp)
  /\ log' = log \o lines \o reply.log
  /\ pc' = "done"

\* POST /validate-token
ValidateToken ==
  /\ pc = "idle"
  /\ UNCHANGED modalVars
  /\ \E b \in ValidateBodies :
       /\ op' = "validate-token"
       /\ req' = b
       /\ IF ValidateTokenInvalid(b)
          THEN Answer(Json(400, ErrorBody("API token is required")), <<>>)
          ELSE Answer(Json(200, MessageBody(WelcomeMessage)), <<>>)

\* POST /generate-text, up to its response or its await of the vendor call.
GenerateText ==
  /\ pc = "idle"
  /\ UNCHANGED modalVars
  /\ \E b \in GenerateBodies :
       /\ op' = "generate-text"
       /\ req' = b
       /\ IF GenerateTextInvalid(b)
          THEN Answer(Json(400, ErrorBody("Level, API token, provider, and model are required")),
                      <<>>)
          ELSE LET level == Str(b.level)
                   provider == Str(b.provider)
                   prompt == BuildPrompt(level, b.customPrompt)
                   maxTokens == GenerateMaxTokens(level, b.customPrompt)
                   lines == <<"Generating text with " \o provider \o " (model: "
                                \o Str(b.model) \o ") for " \o level \o " level">>
                              \o (IF Truthy(b.customPrompt)
                                  THEN <<"Using custom greeting prompt">> ELSE <<>>)
               IN  IF provider = "gemini"
                   THEN Await("axios-gemini",
                              GeminiRestCall(Str(b.model), b.apiToken, prompt),
                              lines \o <<"", "Sending request to Gemini API: "
                                               \o GeminiUrl(Str(b.model), b.apiToken)>>)
                   ELSE IF provider \in CallingProviders
                   THEN Await(provider,
                              ServiceCall(provider, b.apiToken, b.model, level,
                                          prompt, maxTokens),
                              lines \o ServiceCallLog(provider, b.model))
                   ELSE LET run == generateTextNoCall(provider)
                        IN  /\ AnswerFromService(run,
                                  GenerateTextServiceReply(provider, run.completion),
                                  lines \o ServiceCatchLog(provider, DispatchNoCall(provider)))
                            /\ UNCHANGED <<route, calls, vendorOutcome, served>>

\* POST /translate-word, up to its response or its await of the vendor call.
TranslateWord ==
  /\ pc = "idle"
  /\ UNCHANGED modalVars
  /\ \E b \in TranslateBodies :
       /\ op' = "translate-word"
       /\ req' = b
       /\ LET received == <<"Translation request received: " \o BodyStr(b)>>
          IN  IF TranslateWordInvalid(b)
              THEN Answer(Json(400, ErrorBody("Word, target language, and language code are required")),
                          received \o <<"Missing required fields">>)
              ELSE LET word == Str(b.word)
                       lines == received \o
                                <<"Translating \"" \o word \o "\" to " \o Str(b.targetLanguage)
                                    \o " (" \o Str(b.languageCode) \o ")">>
                   IN  IF TranslateWordNoCredentials(b)
                       THEN Answer(Json(200, ErrorBody("AI token and provider are required for translation")),
                                   lines \o <<"No AI token or provider provided for translation">>)
                       ELSE LET provider == Str(b.provider)
                                prompt == TranslationPrompt(word, Str(b.targetLanguage))
                            IN  IF provider \in CallingProviders
                                THEN Await(provider,
                                           ServiceCall(provider, b.aiToken, b.model,
                                                       "Elementary", prompt, 50),
                                           lines \o ServiceCallLog(provider, b.model))
                                ELSE LET run == generateTextNoCall(provider)
                                     IN  /\ AnswerFromService(run,
                                               TranslateWordServiceReply(word, run.completion),
                                               lines \o ServiceCatchLog(provider, DispatchNoCall(provider)))
                                         /\ UNCHANGED <<route, calls, vendorOutcome, served>>

\* The awaited vendor call settles and the handler runs to its response.
VendorSettles ==
  /\ pc = "await"
  /\ UNCHANGED modalVars
  /\ \E o \in Outcomes(route) :
       /\ vendorOutcome' = Some(o)
       /\ IF route = "axios-gemini"
          THEN LET reply == GenerateTextGeminiReply(o)
               IN  /\ resp' = Append(resp, reply.resp)
                   /\ log' = log \o reply.log
                   /\ pc' = "done"
                   /\ UNCHANGED <<aiResponse, classified, escaped>>
          ELSE LET run == generateText(route, o)
                   lines == ServiceCatchLog(route, Dispatch(route, o))
               IN  IF op = "generate-text"
                   THEN AnswerFromService(run, GenerateTextServiceReply(route, run.completion), lines)
                   ELSE AnswerFromService(run, TranslateWordServiceReply(Str(req.word), run.completion), lines)
  /\ UNCHANGED <<op, req, route, calls, served>>

\* The request is over; the server takes the next one.  Nothing of the
\* request outlives it.
NextRequest ==
  /\ pc = "done"
  /\ UNCHANGED modalVars
  /\ served + 1 < MaxRequests
  /\ served' = served + 1
  /\ pc' = "idle"
  /\ op' = "none"
  /\ req' = NoFields
  /\ route' = "none"
  /\ calls' = <<>>
  /\ aiResponse' = None
  /\ classified' = FALSE
  /\ escaped' = FALSE
  /\ vendorOutcome' = None
  /\ resp' = <<>>
  /\ log' = <<>>

Next == ValidateToken \/ GenerateText \/ TranslateWord \/ VendorSettles \/ NextRequest

Spec == Init /\ [][Next]_vars

----------------------------------------------------------------------------
\* WordDefinitionModal.  The component stays mounted while it is closed (it
\* renders null), so its state and its pending requests outlive a close.  The
\* parent that owns the props isOpen and word is not part of the sources: it
\* may render the modal with any props.

\* The words the parent opens the modal for; "" is no word.
Words == {"cat", "dog"}
PropWords == Words \cup {""}

\* What the user types into the translation field.
UserInputs == {"", " ", " gata "}

\* The translation a successful translate-word response carries for a word.
TranslationFor == "cat" :> "gato" @@ "dog" :> "perro"

\* response.data of aiService.translateWord for a word, or the rejection of
\* the call (axios rejects on a status outside 2xx and on a network failure).
TranslateData(success, translation) == [settled |-> "data", success |-> success, translation |-> translation]
TranslateRejected == [settled |-> "rejected", success |-> FALSE, translation |-> None]
TranslateResponses(w) ==
  {TranslateData(TRUE, Some(TranslationFor[w])), TranslateData(TRUE, Some("")),
   TranslateData(FALSE, None), TranslateRejected}

\* The guard of fetchAITranslation and of its call in the effect.
WillFetch(w) == w # "" /\ modal.isAiReady

\* What fetchAITranslation stores once its call has settled.
SuggestionOf(response) ==
  IF response.settled = "rejected" THEN "Translation error"
  ELSE IF response.success /\ Truthy(response.translation) THEN Get(response.translation)
  ELSE "Translation not available"

\* const finalTranslation = translation.trim() || aiTranslation
FinalTranslation == IF trim(modal.translation) # "" THEN trim(modal.translation) ELSE modal.aiTranslation

\* The submit button is enabled.
CanSubmit == ~modal.isSubmitting /\ (trim(modal.translation) # "" \/ modal.aiTranslation # "")

\* The parent renders the modal with other props; the effect on [isOpen, word]
\* runs: when open it clears both fields and, if the guard lets it, starts
\* fetchAITranslation up to its await.
ParentRenders ==
  \E o \in BOOLEAN, w \in PropWords :
    /\ <<o, w>> # <<modal.isOpen, modal.word>>
    /\ IF o /\ WillFetch(w)
       THEN /\ fetches < MaxFetches
            /\ modal' = [modal EXCEPT !.isOpen = o, !.word = w, !.translation = "",
                                      !.aiTranslation = "", !.isLoadingTranslation = TRUE]
            /\ fetches' = fetches + 1
            /\ inflight' = inflight \cup {[word |-> w, id |-> fetches + 1]}
       ELSE /\ modal' = IF o THEN [modal EXCEPT !.isOpen = o, !.word = w, !.translation = "",
                                                !.aiTranslation = ""]
                              ELSE [modal EXCEPT !.isOpen = o, !.word = w]
            /\ UNCHANGED <<inflight, fetches>>
    /\ UNCHANGED <<onSaveCalls, gatewayVars>>

\* A translateWord call settles and fetchAITranslation runs to its end.
TranslationSettles ==
  \E r \in inflight : \E response \in TranslateResponses(r.word) :
    /\ inflight' = inflight \ {r}
    /\ modal' = [modal EXCEPT !.aiTranslation = SuggestionOf(response),
                              !.isLoadingTranslation = FALSE]
    /\ UNCHANGED <<fetches, onSaveCalls, gatewayVars>>

\* onChange of the translation field.
TypeTranslation ==
  \E t \in UserInputs :
    /\ modal.isOpen
    /\ t # modal.translation
    /\ modal' = [modal EXCEPT !.translation = t]
    /\ UNCHANGED <<inflight, fetches, onSaveCalls, gatewayVars>>

\* handleSubmit up to its await of onSave.
HandleSubmit ==
  /\ modal.isOpen
  /\ CanSubmit
  /\ Len(onSaveCalls) < MaxSaves
  /\ IF FinalTranslation = ""
     THEN UNCHANGED <<modal, onSaveCalls>>
     ELSE /\ modal' = [modal EXCEPT !.isSubmitting = TRUE]
          /\ onSaveCalls' = Append(onSaveCalls, [word |-> modal.word, translation |-> FinalTranslation])
  /\ UNCHANGED <<inflight, fetches, gatewayVars>>

\* onSave settles and handleSubmit runs to its end.
SaveSettles ==
  \E saved \in BOOLEAN :
    /\ modal.isSubmitting
    /\ modal' = IF saved THEN [modal EXCEPT !.translation = "", !.aiTranslation = "", !.isSubmitting = FALSE]
                         ELSE [modal EXCEPT !.isSubmitting = FALSE]
    /\ UNCHANGED <<inflight, fetches, onSaveCalls, gatewayVars>>

\* handleClose: the overlay, the close button or Cancel.  onClose is taken to
\* close the modal.
HandleClose ==
  /\ modal.isOpen
  /\ modal' = [modal EXCEPT !.translation = "", !.aiTranslation = "", !.isOpen = FALSE]
  /\ UNCHANGED <<inflight, fetches, onSaveCalls, gatewayVars>>

ModalInit == Listening /\ \E ready \in BOOLEAN : Mounted(ready)

ModalNext ==
  ParentRenders \/ TranslationSettles \/ TypeTranslation \/ HandleSubmit \/ SaveSettles \/ HandleClose

ModalSpec == ModalInit /\ [][ModalNext]_vars

----------------------------------------------------------------------------
\* Properties.

\* The one response of the finished request.
Answered == pc = "done" /\ Len(resp) = 1
Response == resp[1]

Missing(o) == o = None \/ o = Some("")

\* A required field of the route's request is absent or empty.
RequiredFieldMissing ==
  \/ op = "validate-token" /\ Missing(req.apiToken)
  \/ op = "generate-text" /\ \E f \in {"level", "apiToken", "provider", "model"} : Missing(req[f])
  \/ op = "translate-word" /\ \E f \in {"word", "targetLanguage", "languageCode"} : Missing(req[f])

\* C1: on each of the three routes a request with a required field absent or
\* empty is answered with HTTP 400, success:false and an error string, and no
\* vendor call is made while handling it.
C1_MissingFieldIs400 ==
  RequiredFieldMissing =>
    /\ Answered
    /\ Response.status = 400
    /\ Response.body.success = FALSE
    /\ Truthy(Response.body.error)
    /\ calls = <<>>

\* A generate-text request whose only missing field is the (empty) model has been answered.
C1_Witness ==
  /\ op = "generate-text"
  /\ req.model = Some("") /\ req.level = Some("Advanced")
  /\ req.apiToken = Some("sk-x") /\ req.provider = Some("openai")
  /\ Answered /\ Response.status = 400

NoCredentialsBody == ErrorBody("AI token and provider are required for translation")

\* C2 as stated: every translate-word request whose aiToken or provider is
\* absent is answered with HTTP 200 and the fixed no-credentials body, and no
\* vendor call is made.
C2_AbsentCredentialsAlways200 ==
  (op = "translate-word" /\ (req.aiToken = None \/ req.provider = None)) =>
    /\ Answered
    /\ Response = Json(200, NoCredentialsBody)
    /\ calls = <<>>

\* C2 amended: a translate-word request that carries a non-empty word,
\* targetLanguage and languageCode and whose aiToken or provider is absent or
\* empty is answered with HTTP 200 and the fixed no-credentials body, and no
\* vendor call is made.
C2_NoCredentialsIs200 ==
  (/\ op = "translate-word"
   /\ ~RequiredFieldMissing
   /\ (Missing(req.aiToken) \/ Missing(req.provider))) =>
    /\ Answered
    /\ Response = Json(200, NoCredentialsBody)
    /\ calls = <<>>
    /\ aiResponse = None

\* A complete translate-word request without aiToken, but with a provider, has been answered.
C2_Witness ==
  /\ op = "translate-word"
  /\ ~RequiredFieldMissing
  /\ req.aiToken = None /\ req.provider = Some("openai")
  /\ Answered /\ Response.status = 200

\* The request passed validation and its handler went on to the provider step.
ReachedProviderStep ==
  \/ op = "generate-text" /\ ~RequiredFieldMissing
  \/ /\ op = "translate-word" /\ ~RequiredFieldMissing
     /\ ~Missing(req.aiToken) /\ ~Missing(req.provider)

\* C3 as stated: for every provider, a well-formed generate-text request whose
\* generation fails is answered with HTTP 400, success:false and the error
\* "AI text generation failed: {error}." around the adapter's error string
\* ("Unknown error" when the adapter gave none).
C3_GenerationFailureIs400 ==
  (/\ op = "generate-text" /\ ReachedProviderStep /\ Answered
   /\ Response.body.success = FALSE) =>
    /\ Response.status = 400
    /\ IsSome(Response.body.error)
    /\ startsWith(Get(Response.body.error), "AI text generation failed: ")
    /\ IsSome(aiResponse) =>
         Get(Response.body.error)
           = "AI text generation failed: " \o OrElse(Get(aiResponse).error, "Unknown error") \o "."

\* The vendor reply has the shape the claim lists: no first choice, message or
\* content (openai), no text block (claude), no candidates, no first part or
\* no text in it (gemini REST), an empty text() (gemini SDK).
ReplyLacksText ==
  /\ IsSome(vendorOutcome)
  /\ Get(vendorOutcome).settled = "resolved"
  /\ LET r == Get(vendorOutcome).reply
     IN  CASE route = "openai" ->
                \/ r.choices = Some(<<>>)
                \/ r.choices = Some(<<[message |-> None]>>)
                \/ r.choices = Some(<<[message |-> Some([content |-> None])]>>)
           [] route = "claude" -> \A i \in 1..Len(r.content) : r.content[i].type # "text"
           [] route = "gemini" -> r.text = ""
           [] route = "axios-gemini" ->
                \/ r.candidates = None
                \/ r.candidates = Some(<<>>)
                \/ r.candidates = Some(<<[content |-> Some([parts |-> Some(<<>>)])]>>)
                \/ r.candidates = Some(<<[content |-> Some([parts |-> Some(<<[text |-> None]>>)])]>>)
           [] OTHER -> FALSE

\* C4 as stated: for every provider and both routes, a vendor reply without
\* the expected text path is answered with success:false and a 'no text
\* generated' message, never with HTTP 500, and no exception leaves the adapter.
C4_NoTextIsNeverA500 ==
  (Answered /\ ReplyLacksText) =>
    /\ Response.body.success = FALSE
    /\ IsSome(Response.body.error)
    /\ includes(toLowerCase(Get(Response.body.error)), "no text generated")
    /\ Response.status # 500
    /\ ~escaped

\* C5 as stated: a generate-text response with success:true has a non-empty
\* text and a translate-word response with success:true has a non-empty
\* translation.
C5_SuccessHasPayload ==
  (Answered /\ Response.body.success) =>
    /\ op = "generate-text" => Truthy(Response.body.text)
    /\ op = "translate-word" => Truthy(Response.body.translation)

\* C6 as stated: every result of AIService.generateText has a non-empty text
\* when success is true and a non-empty error when success is false.
C6_ResultInvariant ==
  IsSome(aiResponse) =>
    /\ Get(aiResponse).success => Truthy(Get(aiResponse).text)
    /\ ~Get(aiResponse).success => Truthy(Get(aiResponse).error)

\* The awaited vendor call raised an Error.
VendorRaisedError ==
  /\ IsSome(vendorOutcome)
  /\ Get(vendorOutcome).settled = "rejected"
  /\ Get(vendorOutcome).err.isError

RaisedError == Get(vendorOutcome).err
RaisedMessageLower == toLowerCase(Get(RaisedError.message))

\* The provider name as the templates print it.
ProviderUpper ==
  CASE route = "openai" -> "OPENAI"
    [] route = "claude" -> "CLAUDE"
    [] route \in {"gemini", "axios-gemini"} -> "GEMINI"
    [] OTHER -> ""

\* C7 as stated: for every vendor, when the vendor call raises an error whose
\* message contains "rate limit" in any letter case, the error of the response
\* contains "rate limit exceeded" and the provider's name, whatever else the
\* message contains and whatever status the error carries.
C7_RateLimitAlwaysReported ==
  (Answered /\ VendorRaisedError /\ includes(RaisedMessageLower, "rate limit")) =>
    /\ IsSome(Response.body.error)
    /\ includes(Get(Response.body.error), "rate limit exceeded")
    /\ includes(Get(Response.body.error), ProviderUpper)

\* The message contains one of the substrings the classifier takes for a credential error.
MentionsCredential ==
  \/ includes(RaisedMessageLower, "api key not valid")
  \/ includes(RaisedMessageLower, "invalid api key")
  \/ includes(RaisedMessageLower, "api_key_invalid")
  \/ includes(RaisedMessageLower, "unauthorized")

\* C7 amended: when a vendor call made by AIService (openai, claude, gemini)
\* raises an Error whose message contains "rate limit" in any letter case and
\* none of the credential substrings, and the error does not carry status 401
\* on openai or claude, the adapter's error is "{PROVIDER} rate limit
\* exceeded. Please try again in a few minutes." with the upper-cased provider
\* name, and the error of the response contains it.
C7_RateLimitReported ==
  (/\ Answered /\ VendorRaisedError /\ route \in CallingProviders
   /\ includes(RaisedMessageLower, "rate limit")
   /\ ~MentionsCredential
   /\ ~(route \in {"openai", "claude"} /\ RaisedError.status = Some(401))) =>
    /\ aiResponse
         = Some(Failure(ProviderUpper \o " rate limit exceeded. Please try again in a few minutes."))
    /\ IsSome(Response.body.error)
    /\ includes(Get(Response.body.error),
                ProviderUpper \o " rate limit exceeded. Please try again in a few minutes.")

\* A claude call raised "Rate limit reached for requests" with status 429 and was answered.
C7_Witness ==
  /\ Answered /\ VendorRaisedError /\ route = "claude"
  /\ RaisedError.message = Some("Rate limit reached for requests")
  /\ RaisedError.status = Some(429)
  /\ IsSome(Response.body.error)
  /\ includes(Get(Response.body.error), "CLAUDE rate limit exceeded")

\* The category of a lower-cased message, the categories taken in order, given
\* the substrings of the credential category.
CategoryOf(m, credential) ==
  CASE \E x \in credential : includes(m, x) -> "credential"
    [] /\ \A x \in credential : ~includes(m, x)
       /\ \E x \in {"rate limit", "quota", "too many requests"} : includes(m, x) -> "rate-limit"
    [] /\ \A x \in credential \cup {"rate limit", "quota", "too many requests"} : ~includes(m, x)
       /\ \E x \in {"network", "connection", "timeout"} : includes(m, x) -> "network"
    [] /\ \A x \in credential \cup {"rate limit", "quota", "too many requests",
                                    "network", "connection", "timeout"} : ~includes(m, x)
       /\ \E x \in {"400", "bad request"} : includes(m, x) -> "bad-request"
    [] /\ \A x \in credential \cup {"rate limit", "quota", "too many requests",
                                    "network", "connection", "timeout",
                                    "400", "bad request"} : ~includes(m, x)
       /\ \E x \in {"500", "internal server error"} : includes(m, x) -> "outage"
    [] OTHER -> "none"

\* The fixed template of a category for provider name P; the raw message for no category.
TemplateOf(category, P, raw) ==
  CASE category = "credential" -> "Invalid " \o P \o " API key. Please check your API key and try again."
    [] category = "rate-limit" -> P \o " rate limit exceeded. Please try again in a few minutes."
    [] category = "network" -> "Network error connecting to " \o P \o ". Please check your internet connection."
    [] category = "bad-request" -> "Invalid request to " \o P \o ". Please check your API key configuration."
    [] category = "outage" -> P \o " service is temporarily unavailable. Please try again later."
    [] OTHER -> raw

\* The classifier's result is the template of the category the message falls
\* in, and a generate-text request that raised "401 Unauthorized" on openai is
\* answered with HTTP 400 and the wrapped "Invalid OPENAI API key" error.
ClassifiedAs(credential) ==
  (Answered /\ classified /\ VendorRaisedError) =>
    /\ aiResponse
         = Some(Failure(TemplateOf(CategoryOf(RaisedMessageLower, credential), ProviderUpper,
                                   Get(RaisedError.message))))
    /\ (/\ op = "generate-text" /\ route = "openai"
        /\ RaisedError.message = Some("401 Unauthorized")) =>
         /\ startsWith(Get(Get(aiResponse).error), "Invalid OPENAI API key")
         /\ Response.status = 400
         /\ Response.body.error
              = Some("AI text generation failed: " \o Get(Get(aiResponse).error) \o ".")

\* C8 as stated: the classifier takes the first matching category in the order
\* credential ("api key" / "invalid api key" / "unauthorized"), rate limit,
\* network, bad request, upstream outage; each yields its template with the
\* upper-cased provider name and a message matching none is returned
\* unchanged; "401 Unauthorized" yields "Invalid OPENAI API key..." wrapped in
\* an HTTP 400 by generate-text.
C8_ClassifierAsStated == ClassifiedAs({"api key", "invalid api key", "unauthorized"})

\* C8 amended: as stated, with the credential category matched by "api key not
\* valid" / "invalid api key" / "api_key_invalid" / "unauthorized" (a message
\* that only mentions "api key" is not a credential error), for the raised
\* Errors that reach the classifier.
C8_Classifier ==
  ClassifiedAs({"api key not valid", "invalid api key", "api_key_invalid", "unauthorized"})

\* An openai generate-text call raised "401 Unauthorized" without a 401 status
\* and the classifier ran.
C8_Witness ==
  /\ Answered /\ classified /\ VendorRaisedError
  /\ op = "generate-text" /\ route = "openai"
  /\ RaisedError.message = Some("401 Unauthorized")
  /\ Response.status = 400

\* The credential message each adapter returns directly.
DirectCredentialMessage ==
  CASE route = "openai" ->
         "Invalid OpenAI API key. Please check your API key at https://platform.openai.com/api-keys"
    [] route = "claude" ->
         "Invalid Claude API key. Please check your API key at https://console.anthropic.com/"
    [] route = "gemini" ->
         "Invalid Gemini API key. Please get a valid API key from https://makersuite.google.com/app/apikey"
    [] OTHER -> ""

ShortCircuited ==
  /\ aiResponse = Some(Failure(DirectCredentialMessage))
  /\ ~classified

\* The status each adapter's catch looks for.
AuthFailureStatus == IF route = "gemini" THEN Some(400) ELSE Some(401)

\* C9 as stated: when a vendor call fails with the vendor's authentication
\* failure status, the adapter returns the credential message directly,
\* whatever the text of the error's message, without consulting the classifier.
C9_StatusAloneShortCircuits ==
  (/\ Answered /\ VendorRaisedError /\ route \in CallingProviders
   /\ RaisedError.status = AuthFailureStatus) => ShortCircuited

\* C9 amended: on openai and claude a call failing with status 401 returns the
\* credential message directly, whatever the message text, without consulting
\* the classifier; on gemini a call failing with status 400 does so only when
\* its message contains "API key not valid", and otherwise goes to the classifier.
C9_ShortCircuit ==
  (Answered /\ VendorRaisedError /\ route \in CallingProviders) =>
    /\ (route \in {"openai", "claude"} /\ RaisedError.status = Some(401)) => ShortCircuited
    /\ (route = "gemini" /\ RaisedError.status = Some(400)) =>
         IF includes(Get(RaisedError.message), "API key not valid")
         THEN ShortCircuited
         ELSE classified

\* An openai call failed with status 401 and a message that names no credential.
C9_Witness ==
  /\ Answered /\ VendorRaisedError /\ route = "openai"
  /\ RaisedError.status = Some(401)
  /\ RaisedError.message = Some("Model is overloaded")
  /\ ShortCircuited

\* C10: a call of the adapter with provider cohere returns the fixed failure
\* "Cohere integration not yet implemented" as a value: nothing is raised, no
\* vendor call is made, and the route does not answer HTTP 500.
C10_CohereFixedFailure ==
  (ReachedProviderStep /\ req.provider = Some("cohere")) =>
    /\ Answered
    /\ aiResponse = Some(Failure("Cohere integration not yet implemented"))
    /\ ~classified
    /\ ~escaped
    /\ calls = <<>>
    /\ vendorOutcome = None
    /\ Response.status # 500
    /\ Response.body.success = FALSE

\* A generate-text request for cohere has been answered.
C10_Witness ==
  /\ op = "generate-text" /\ ReachedProviderStep /\ req.provider = Some("cohere")
  /\ Answered
  /\ Response.body.error = Some("AI text generation failed: Cohere integration not yet implemented.")

\* C11: validate-token answers every request with a non-empty apiToken with
\* HTTP 200, success:true and the one fixed welcome message, whatever the
\* token, and no execution of validate-token makes a vendor call.
C11_ValidateTokenWelcomes ==
  op = "validate-token" =>
    /\ calls = <<>>
    /\ pc # "await"
    /\ vendorOutcome = None
    /\ ~Missing(req.apiToken) =>
         /\ Answered
         /\ Response
              = Json(200, [success |-> TRUE, text |-> None, error |-> None, translation |-> None,
                           message |-> Some("Hello! I am your personal English teacher. I am ready to help you learn. Please select your proficiency level to begin.")])

\* A validate-token request with a token that is no vendor key has been welcomed.
C11_Witness ==
  /\ op = "validate-token"
  /\ req.apiToken = Some("not-a-key")
  /\ Answered /\ Response.status = 200 /\ Response.body.success

\* The vendor call of the request in hand, once it has been made.
VendorCalled == calls # <<>>
VendorCall == calls[1]

\* The word-count table of the specification.
RangeTable ==
  "Elementary" :> "150-200" @@ "Pre-Intermediate" :> "200-250" @@ "Intermediate" :> "250-300"
    @@ "Upper-Intermediate" :> "300-400" @@ "Advanced" :> "400-500"

\* C12: the prompt generate-text sends to the vendor is customPrompt verbatim
\* whenever one is supplied; otherwise it is the template, which names the
\* level and carries the table's word-count range of the level and no other.
C12_PromptSent ==
  (op = "generate-text" /\ VendorCalled) =>
    IF ~Missing(req.customPrompt)
      THEN VendorCall.prompt = Get(req.customPrompt)
      ELSE /\ includes(VendorCall.prompt, "for " \o Get(req.level) \o " level English learners")
           /\ includes(VendorCall.prompt, "Level: " \o Get(req.level) \o "\n")
           /\ Get(req.level) \in Levels =>
                \A l \in Levels :
                  includes(VendorCall.prompt, "approximately " \o RangeTable[l] \o " words.")
                    <=> l = Get(req.level)

\* An Upper-Intermediate request without a custom prompt has reached the vendor.
C12_Witness ==
  /\ op = "generate-text" /\ VendorCalled
  /\ Missing(req.customPrompt)
  /\ req.level = Some("Upper-Intermediate")
  /\ includes(VendorCall.prompt, "300-400")

\* The output-token budget the specification assigns to the request in hand.
StatedBudget ==
  IF op = "translate-word" THEN 50
  ELSE IF ~Missing(req.customPrompt) THEN 200
  ELSE IF req.level = Some("Advanced") THEN 700
  ELSE 500

\* C13: the output-token budget is 200 with a custom prompt, 700 for Advanced,
\* 500 for the other levels and 50 for a translation, and the vendor request
\* carries it whichever provider the call is routed to.
C13_BudgetReachesVendor ==
  VendorCalled => VendorCall.maxTokens = Some(StatedBudget)

\* The fixed messages of the routes' outermost catch blocks.
GenericMessages ==
  {"Failed to validate token", "An unexpected error occurred on the server.", "Failed to translate word"}

\* C14: an HTTP 500 answer carries a fixed generic message; no 500 body
\* contains the text of the underlying error.
C14_GenericServerError ==
  (Answered /\ Response.status = 500) =>
    Response.body.error \in {Some(m) : m \in GenericMessages}

\* C15: nothing is retried.  A request makes at most one vendor call and is
\* answered exactly once; while the vendor call is pending nothing has been
\* sent, and the answer of a request that called the vendor follows the
\* settling of that call.
C15_OneCallOneResponse ==
  /\ Len(calls) <= 1
  /\ Len(resp) <= 1
  /\ (pc = "done") <=> (Len(resp) = 1)
  /\ pc = "await" => (Len(calls) = 1 /\ vendorOutcome = None /\ resp = <<>>)
  /\ (VendorCalled /\ resp # <<>>) => IsSome(vendorOutcome)

\* A request whose only vendor call failed has been answered.
C15_Witness ==
  /\ Answered
  /\ Len(calls) = 1
  /\ VendorRaisedError

\* The API credential of the request in hand.
Credential == IF op = "translate-word" THEN req.aiToken ELSE req.apiToken

\* C16: the API credential is never written to the server log.
C16_CredentialNotLogged ==
  Truthy(Credential) =>
    \A i \in 1..Len(log) : ~includes(log[i], Get(Credential))

\* The persona table of the specification.
PersonaTable ==
  "Elementary" :> "You are an English teacher creating simple, engaging content for elementary level students. Use basic vocabulary and simple sentence structures."
    @@ "Pre-Intermediate" :> "You are an English teacher creating content for pre-intermediate students. Use moderately complex vocabulary and varied sentence structures."
    @@ "Intermediate" :> "You are an English teacher creating content for intermediate level students. Use a good variety of vocabulary and complex sentence structures."
    @@ "Upper-Intermediate" :> "You are an English teacher creating advanced content for upper-intermediate students. Use sophisticated vocabulary and complex grammatical structures."
    @@ "Advanced" :> "You are an English teacher creating challenging content for advanced students. Use complex vocabulary, idiomatic expressions, and sophisticated grammatical structures."

\* The persona the specification assigns to the request in hand.
StatedPersona ==
  IF op = "translate-word" THEN PersonaTable["Elementary"]
  ELSE IF Str(req.level) \in Levels THEN PersonaTable[Str(req.level)]
  ELSE PersonaTable["Intermediate"]

\* The vendor call was made by an AIService adapter, which is where the
\* persona is looked up.
AdapterCalled == VendorCalled /\ VendorCall.via = "sdk"

\* C17: the persona is the level's fixed string for the five levels and the
\* Intermediate string for every other level value; translate-word always
\* uses the Elementary persona.
C17_PersonaOfLevel ==
  AdapterCalled =>
    IF VendorCall.vendor = "gemini"
      THEN startsWith(VendorCall.prompt, StatedPersona \o "\n\n")
      ELSE VendorCall.system = Some(StatedPersona)

\* The prompt the route built for the request in hand.
UserPrompt ==
  IF op = "translate-word"
  THEN TranslationPrompt(Str(req.word), Str(req.targetLanguage))
  ELSE BuildPrompt(Str(req.level), req.customPrompt)

\* The persona getSystemPrompt yields for the request in hand.
PersonaInUse == getSystemPrompt(IF op = "translate-word" THEN "Elementary" ELSE Str(req.level))

\* C18: every call routed to gemini, from generate-text and from
\* translate-word alike, sends one combined prompt: the persona followed by
\* the user prompt.
C18_GeminiCombinedPrompt ==
  (VendorCalled /\ VendorCall.vendor = "gemini") =>
    /\ startsWith(VendorCall.prompt, PersonaInUse)
    /\ includes(VendorCall.prompt, UserPrompt)
    /\ Len(VendorCall.prompt) >= Len(PersonaInUse) + Len(UserPrompt)

\* The translations translate-word can return.
Translations == {TranslationFor[w] : w \in Words}

\* The request the latest run of fetchAITranslation made is still in flight.
CurrentRequestInFlight == \E r \in inflight : r.id = fetches /\ r.word = modal.word

\* C19: while the modal is open for a word, a translation in the AI
\* suggestion field came from the translate-word response for that word, and
\* the loading indicator is on while the request for that word is in flight.
C19_SuggestionIsForOpenWord ==
  modal.isOpen =>
    /\ modal.aiTranslation \in Translations =>
         (modal.word \in Words /\ modal.aiTranslation = TranslationFor[modal.word])
    /\ (WillFetch(modal.word) /\ CurrentRequestInFlight) => modal.isLoadingTranslation

\* The placeholder strings fetchAITranslation stores after a failure.
Placeholders == {"Translation not available", "Translation error"}

\* C20: every onSave(word, translation) passes the user's non-empty trimmed
\* input or a translation of a success:true response, never a placeholder
\* left by a failed request.
C20_SavedTranslationIsReal ==
  \A i \in 1..Len(onSaveCalls) :
    /\ onSaveCalls[i].translation \in ({trim(t) : t \in UserInputs} \ {""}) \cup Translations
    /\ onSaveCalls[i].translation \notin Placeholders

====
